---- MODULE Spec2Model ----
(***************************************************************************)
(* express-zod-middleware: the request-validation middlewares              *)
(* (validateRequest, withParsedRequest and their one-channel variants),    *)
(* the error responder (sendError, sendErrors) and the process-wide        *)
(* PackageConfiguration override, as defined in src/middlewares.ts, the    *)
(* send-error module and the older copies kept in src/index.ts.            *)
(*                                                                         *)
(* One behaviour is one request: the application constructs a middleware   *)
(* from a schema set, may set or clear the override, and then one handler  *)
(* (or one direct call of the error responder) runs to completion.         *)
(***************************************************************************)
EXTENDS Integers, Sequences, FiniteSets, TLC

(***************************************************************************)
(* Bounds of the model.                                                    *)
(***************************************************************************)
\* The numeric strings of a request are the one-digit strings "0".."MaxDigit".
MaxDigit == 0

(***************************************************************************)
(* JavaScript values, as far as requests and schemas need them.            *)
(***************************************************************************)
Undefined == [t |-> "undefined"]
Str(s) == [t |-> "string", s |-> s]
Num(n) == [t |-> "number", n |-> n]
Obj(o) == [t |-> "object", o |-> o]

DigitChars == <<"0", "1", "2", "3", "4", "5", "6", "7", "8", "9">>

\* /^\d+$/ on the strings of the model (one character long).
MatchesDigits(s) == \E i \in 1..Len(DigitChars) : DigitChars[i] = s

\* Number(s) for a string of digits.
Number(s) == (CHOOSE i \in 1..Len(DigitChars) : DigitChars[i] = s) - 1

\* o[k] of a JavaScript object: undefined when the key is absent.
Get(o, k) == IF k \in DOMAIN o THEN o[k] ELSE Undefined

(***************************************************************************)
(* Schemas (zod).  A schema is a string, the string-to-number transform of *)
(* common-zod-schemas.ts, or an object of keyed schemas.                   *)
(***************************************************************************)
NoSchema == [type |-> "none"]
zodString == [type |-> "string"]
zodStringToNumberSchema == [type |-> "stringToNumber"]
zodObject(shape) == [type |-> "object", shape |-> shape]

Issue(message, path) == [message |-> message, path |-> path]

\* The issues a schema reports for a value found at `path`, in zod's order
\* (an object reports its keys' issues in the order of its shape).
RECURSIVE IssuesOf(_, _, _)
IssuesOf(schema, v, path) ==
  IF schema.type = "string" THEN
    IF v.t = "undefined" THEN << Issue("Required", path) >>
    ELSE IF v.t # "string" THEN << Issue("Expected string, received " \o v.t, path) >>
    ELSE << >>
  ELSE IF schema.type = "stringToNumber" THEN
    IF v.t = "undefined" THEN << Issue("Required", path) >>
    ELSE IF v.t # "string" THEN << Issue("Expected string, received " \o v.t, path) >>
    ELSE IF ~MatchesDigits(v.s)
      THEN << Issue("Invalid, expected Number or String containing Number", path) >>
    ELSE << >>
  ELSE
    IF v.t = "undefined" THEN << Issue("Required", path) >>
    ELSE IF v.t # "object" THEN << Issue("Expected object, received " \o v.t, path) >>
    ELSE
      LET RECURSIVE Keys(_)
          Keys(i) ==
            IF i > Len(schema.shape) THEN << >>
            ELSE IssuesOf(schema.shape[i].schema,
                          Get(v.o, schema.shape[i].key),
                          Append(path, schema.shape[i].key)) \o Keys(i + 1)
      IN Keys(1)

\* The output of a schema for a value it accepts: transforms applied, and an
\* object rebuilt from the keys of its shape.
RECURSIVE OutputOf(_, _)
OutputOf(schema, v) ==
  IF schema.type = "string" THEN v
  ELSE IF schema.type = "stringToNumber" THEN Num(Number(v.s))
  ELSE
    LET keys == { schema.shape[i].key : i \in 1..Len(schema.shape) }
        sub(k) == (CHOOSE i \in 1..Len(schema.shape) : schema.shape[i].key = k)
    IN Obj([k \in keys |-> OutputOf(schema.shape[sub(k)].schema, Get(v.o, k))])

\* schema.safeParse(data): { success: true, data } or { success: false, error }
\* where error.errors is the non-empty list of issues.
SafeParse(schema, data) ==
  LET issues == IssuesOf(schema, data, << >>)
  IN IF Len(issues) = 0
       THEN [success |-> TRUE, data |-> OutputOf(schema, data)]
       ELSE [success |-> FALSE, error |-> [errors |-> issues]]

(***************************************************************************)
(* The requests and schema sets of the model.                              *)
(***************************************************************************)
RequestInputType == {"params", "query", "body"}

Strings == { DigitChars[i + 1] : i \in 0..MaxDigit } \cup {"x"}
StringVals == { Str(s) : s \in Strings }
FieldVals == {Undefined} \cup StringVals

\* req.params: the route's id.
ParamsData == { Obj([id |-> v]) : v \in StringVals \cup {Undefined} }
\* req.query: two keys, each a string or absent.
QueryData == { Obj([lang |-> l, version |-> v]) : l \in FieldVals, v \in FieldVals }
\* req.body: anything; an object with a name and a nested address, or no object.
AddressVals == {Undefined, Obj([first |-> Undefined]), Obj([first |-> Str("x")])}
BodyData == { Obj([name |-> n, address |-> a]) : n \in FieldVals, a \in AddressVals }
              \cup {Undefined, Str("x")}

Requests == { [params |-> p, query |-> q, body |-> b] :
                p \in ParamsData, q \in QueryData, b \in BodyData }

ParamsSchema == zodObject(<< [key |-> "id", schema |-> zodStringToNumberSchema] >>)
QuerySchema == zodObject(<< [key |-> "lang", schema |-> zodString],
                            [key |-> "version", schema |-> zodStringToNumberSchema] >>)
BodySchema == zodObject(<< [key |-> "name", schema |-> zodString],
                           [key |-> "address",
                            schema |-> zodObject(<< [key |-> "first", schema |-> zodString] >>)] >>)

\* RequestSchemas: every key optional.
RequestSchemas == { [params |-> p, query |-> q, body |-> b] :
                      p \in {NoSchema, ParamsSchema},
                      q \in {NoSchema, QuerySchema},
                      b \in {NoSchema, BodySchema} }

Declared(schema) == schema # NoSchema

(***************************************************************************)
(* State.                                                                  *)
(***************************************************************************)
VARIABLES
  PackageConfiguration, \* the process-wide slot: its sendErrors is "undefined" or an override
  schemas,              \* the RequestSchemas the middleware was constructed with
  req,                  \* req.params, req.query, req.body
  received,             \* the request as it arrived (never assigned by any handler)
  res,                  \* the calls made on the express Response: status, setHeader, json
  nextCalls,            \* how many times next() was called
  sendErrorsCalls,      \* the calls of sendErrors: which module's, and its zodErrors
  overrideCalls,        \* the calls of PackageConfiguration.sendErrors: res and zodErrors
  op,                   \* the operation that ran
  pc                    \* "ready" before the operation, "done" after it

vars == << PackageConfiguration, schemas, req, received, res, nextCalls,
           sendErrorsCalls, overrideCalls, op, pc >>

FreshResponse == [status |-> << >>, setHeader |-> << >>, json |-> << >>]

Init ==
  /\ PackageConfiguration = [sendErrors |-> "undefined"]
  /\ schemas \in RequestSchemas
  /\ req \in Requests
  /\ received = req
  /\ res = FreshResponse
  /\ nextCalls = 0
  /\ sendErrorsCalls = << >>
  /\ overrideCalls = << >>
  /\ op = "none"
  /\ pc = "ready"

(***************************************************************************)
(* The error responder of the send-error module.                           *)
(***************************************************************************)
\* `${x}` for a path segment: path[0] of an empty path is undefined.
PathHead(path) == IF Len(path) = 0 THEN "undefined" ELSE path[1]

\* MapIssues with the pointer built from the last path segment instead of the first.
MapIssues_lastSegment(inputType, zodError) ==
  [i \in 1..Len(zodError.errors) |->
     [detail |-> zodError.errors[i].message,
      pointer |-> "#" \o inputType \o "/"
                  \o (IF Len(zodError.errors[i].path) = 0 THEN "undefined"
                      ELSE zodError.errors[i].path[Len(zodError.errors[i].path)])]]

\* zodError.errors.map(x => ({ detail: x.message, pointer: `#${inputType}/${x.path[0]}` }))
MapIssues(inputType, zodError) ==
  [i \in 1..Len(zodError.errors) |->
     [detail |-> zodError.errors[i].message,
      pointer |-> "#" \o inputType \o "/" \o PathHead(zodError.errors[i].path)]]

\* FlatMapIssues with the channels' entries accumulated in front (last channel first).
RECURSIVE FlatMapIssues_prepending(_)
FlatMapIssues_prepending(zodErrors) ==
  IF Len(zodErrors) = 0 THEN << >>
  ELSE FlatMapIssues_prepending(Tail(zodErrors))
       \o [i \in 1..Len(zodErrors[1][2].errors) |->
             [detail |-> zodErrors[1][2].errors[i].message,
              pointer |-> "#" \o zodErrors[1][1] \o "/"
                          \o PathHead(zodErrors[1][2].errors[i].path)]]

\* zodErrors.flatMap(([inputType, zodError]) => ...)
RECURSIVE FlatMapIssues(_)
FlatMapIssues(zodErrors) ==
  IF Len(zodErrors) = 0 THEN << >>
  ELSE MapIssues(zodErrors[1][1], zodErrors[1][2]) \o FlatMapIssues(Tail(zodErrors))

Problem(errors) ==
  [type |-> "https://datatracker.ietf.org/doc/html/rfc9110#name-422-unprocessable-content",
   title |-> "Your request is not valid.",
   detail |-> "Input is invalid, see 'errors' for more information.",
   status |-> 422,
   errors |-> errors]

\* Respond without the setHeader call: res.json alone answers application/json.
Respond_jsonOnly(r, problem) ==
  [status |-> Append(r.status, problem.status),
   setHeader |-> r.setHeader,
   json |-> Append(r.json, problem)]

\* res.status(problem.status); res.setHeader("content-type", ...); res.json(problem)
Respond(r, problem) ==
  [status |-> Append(r.status, problem.status),
   setHeader |-> Append(r.setHeader, << "content-type", "application/problem+json" >>),
   json |-> Append(r.json, problem)]

\* The override an application installs: a responder of its own.
CustomResponder(r, zodErrors) ==
  [r EXCEPT !.status = Append(@, 400),
            !.json = Append(@, [message |-> "custom", failed |-> Len(zodErrors)])]

\* sendErrors without the override branch (the responder as index.ts has it).
sendErrors_ignoringOverride(zodErrors) ==
  /\ sendErrorsCalls' = Append(sendErrorsCalls,
                               [module |-> "send-error", zodErrors |-> zodErrors])
  /\ res' = Respond(res, Problem(FlatMapIssues(zodErrors)))
  /\ UNCHANGED overrideCalls

sendErrors(zodErrors) ==
  /\ sendErrorsCalls' = Append(sendErrorsCalls,
                               [module |-> "send-error", zodErrors |-> zodErrors])
  /\ IF PackageConfiguration.sendErrors # "undefined"
       THEN /\ overrideCalls' = Append(overrideCalls, [res |-> res, zodErrors |-> zodErrors])
            /\ res' = CustomResponder(res, zodErrors)
       ELSE /\ res' = Respond(res, Problem(FlatMapIssues(zodErrors)))
            /\ UNCHANGED overrideCalls

\* sendError with a responder of its own (as index.ts has it) instead of the
\* delegation to sendErrors.
sendError_ownResponse(inputType, zodError) ==
  /\ sendErrorsCalls' = Append(sendErrorsCalls,
                               [module |-> "send-error",
                                zodErrors |-> << << inputType, zodError >> >>])
  /\ res' = Respond(res, Problem(MapIssues(inputType, zodError)))
  /\ UNCHANGED overrideCalls

sendError(inputType, zodError) == sendErrors(<< << inputType, zodError >> >>)

(***************************************************************************)
(* The middlewares of middlewares.ts.                                      *)
(***************************************************************************)
next == nextCalls' = nextCalls + 1

\* The (channel, error) pairs of the channels of s whose schema rejects rq, in
\* the order params, query, body.
Rejections(s, rq) ==
  LET One(c) == IF Declared(s[c]) /\ ~SafeParse(s[c], rq[c]).success
                  THEN << << c, SafeParse(s[c], rq[c]).error >> >> ELSE << >>
  IN One("params") \o One("query") \o One("body")

\* rq with every channel whose schema of s accepts it replaced by the schema's output.
Parsed(s, rq) ==
  [c \in RequestInputType |->
     IF Declared(s[c]) /\ SafeParse(s[c], rq[c]).success
       THEN SafeParse(s[c], rq[c]).data ELSE rq[c]]

\* validateRequest without the `return` in front of sendErrors: next() follows it.
validateRequest_noReturn(s) ==
  /\ UNCHANGED req
  /\ IF Len(Rejections(s, req)) > 0
       THEN sendErrors(Rejections(s, req)) /\ next
       ELSE next /\ UNCHANGED << res, sendErrorsCalls, overrideCalls >>

\* validateRequest that assigns the parsed data, as withParsedRequest does.
validateRequest_assigning(s) ==
  /\ req' = Parsed(s, req)
  /\ IF Len(Rejections(s, req)) > 0
       THEN sendErrors(Rejections(s, req)) /\ UNCHANGED nextCalls
       ELSE next /\ UNCHANGED << res, sendErrorsCalls, overrideCalls >>

\* validateRequest with `errors.length >= 0` as its test.
validateRequest_alwaysSending(s) ==
  /\ UNCHANGED req
  /\ sendErrors(Rejections(s, req)) /\ UNCHANGED nextCalls

validateRequest(s) ==
  LET paramsResult == SafeParse(s.params, req.params)
      queryResult == SafeParse(s.query, req.query)
      bodyResult == SafeParse(s.body, req.body)
      errors ==
        (IF Declared(s.params) /\ ~paramsResult.success
           THEN << << "params", paramsResult.error >> >> ELSE << >>)
        \o (IF Declared(s.query) /\ ~queryResult.success
              THEN << << "query", queryResult.error >> >> ELSE << >>)
        \o (IF Declared(s.body) /\ ~bodyResult.success
              THEN << << "body", bodyResult.error >> >> ELSE << >>)
  IN /\ UNCHANGED req
     /\ IF Len(errors) > 0
          THEN sendErrors(errors) /\ UNCHANGED nextCalls
          ELSE next /\ UNCHANGED << res, sendErrorsCalls, overrideCalls >>

validateRequestParams(schema) ==
  validateRequest([params |-> schema, query |-> NoSchema, body |-> NoSchema])

validateRequestQuery(schema) ==
  validateRequest([params |-> NoSchema, query |-> schema, body |-> NoSchema])

validateRequestBody(schema) ==
  validateRequest([params |-> NoSchema, query |-> NoSchema, body |-> schema])

\* withParsedRequest that stages the parsed data and assigns it only when no
\* channel failed.
withParsedRequest_staged(s) ==
  IF Len(Rejections(s, req)) > 0
    THEN UNCHANGED req /\ sendErrors(Rejections(s, req)) /\ UNCHANGED nextCalls
    ELSE req' = Parsed(s, req) /\ next
         /\ UNCHANGED << res, sendErrorsCalls, overrideCalls >>

\* withParsedRequest that answers at the first failing channel.
withParsedRequest_firstFailure(s) ==
  /\ req' = Parsed(s, req)
  /\ IF Len(Rejections(s, req)) > 0
       THEN sendErrors(<< Rejections(s, req)[1] >>) /\ UNCHANGED nextCalls
       ELSE next /\ UNCHANGED << res, sendErrorsCalls, overrideCalls >>

\* withParsedRequest that assigns req.body alone.
withParsedRequest_bodyOnly(s) ==
  /\ req' = [req EXCEPT !.body = Parsed(s, req).body]
  /\ IF Len(Rejections(s, req)) > 0
       THEN sendErrors(Rejections(s, req)) /\ UNCHANGED nextCalls
       ELSE next /\ UNCHANGED << res, sendErrorsCalls, overrideCalls >>

withParsedRequest(s) ==
  LET parsedParams == SafeParse(s.params, req.params)
      parsedQuery == SafeParse(s.query, req.query)
      parsedBody == SafeParse(s.body, req.body)
      parseErrors ==
        (IF Declared(s.params) /\ ~parsedParams.success
           THEN << << "params", parsedParams.error >> >> ELSE << >>)
        \o (IF Declared(s.query) /\ ~parsedQuery.success
              THEN << << "query", parsedQuery.error >> >> ELSE << >>)
        \o (IF Declared(s.body) /\ ~parsedBody.success
              THEN << << "body", parsedBody.error >> >> ELSE << >>)
  IN /\ req' = [params |-> IF Declared(s.params) /\ parsedParams.success
                             THEN parsedParams.data ELSE req.params,
                query |-> IF Declared(s.query) /\ parsedQuery.success
                            THEN parsedQuery.data ELSE req.query,
                body |-> IF Declared(s.body) /\ parsedBody.success
                           THEN parsedBody.data ELSE req.body]
     /\ IF Len(parseErrors) > 0
          THEN sendErrors(parseErrors) /\ UNCHANGED nextCalls
          ELSE next /\ UNCHANGED << res, sendErrorsCalls, overrideCalls >>

withParsedRequestParams(schema) ==
  withParsedRequest([params |-> schema, query |-> NoSchema, body |-> NoSchema])

withParsedRequestQuery(schema) ==
  withParsedRequest([params |-> NoSchema, query |-> schema, body |-> NoSchema])

withParsedRequestBody(schema) ==
  withParsedRequest([params |-> NoSchema, query |-> NoSchema, body |-> schema])

(***************************************************************************)
(* The copies of the same operations kept in index.ts.  Its responder      *)
(* never reads PackageConfiguration.                                       *)
(***************************************************************************)
index_sendErrors(zodErrors) ==
  /\ sendErrorsCalls' = Append(sendErrorsCalls,
                               [module |-> "index", zodErrors |-> zodErrors])
  /\ res' = Respond(res, Problem(FlatMapIssues(zodErrors)))
  /\ UNCHANGED overrideCalls

index_sendError(inputType, zodError) ==
  /\ sendErrorsCalls' = Append(sendErrorsCalls,
                               [module |-> "index",
                                zodErrors |-> << << inputType, zodError >> >>])
  /\ res' = Respond(res, Problem(MapIssues(inputType, zodError)))
  /\ UNCHANGED overrideCalls

index_validateRequest(s) ==
  LET ixParams == SafeParse(s.params, req.params)
      ixQuery == SafeParse(s.query, req.query)
      ixBody == SafeParse(s.body, req.body)
      ixErrors ==
        (IF Declared(s.params) /\ ~ixParams.success
           THEN << << "params", ixParams.error >> >> ELSE << >>)
        \o (IF Declared(s.query) /\ ~ixQuery.success
              THEN << << "query", ixQuery.error >> >> ELSE << >>)
        \o (IF Declared(s.body) /\ ~ixBody.success
              THEN << << "body", ixBody.error >> >> ELSE << >>)
  IN /\ UNCHANGED req
     /\ IF Len(ixErrors) > 0
          THEN index_sendErrors(ixErrors) /\ UNCHANGED nextCalls
          ELSE next /\ UNCHANGED << res, sendErrorsCalls, overrideCalls >>

index_withParsedRequest(s) ==
  LET ixParsedParams == SafeParse(s.params, req.params)
      ixParsedQuery == SafeParse(s.query, req.query)
      ixParsedBody == SafeParse(s.body, req.body)
      ixParseErrors ==
        (IF Declared(s.params) /\ ~ixParsedParams.success
           THEN << << "params", ixParsedParams.error >> >> ELSE << >>)
        \o (IF Declared(s.query) /\ ~ixParsedQuery.success
              THEN << << "query", ixParsedQuery.error >> >> ELSE << >>)
        \o (IF Declared(s.body) /\ ~ixParsedBody.success
              THEN << << "body", ixParsedBody.error >> >> ELSE << >>)
  IN /\ req' = [params |-> IF Declared(s.params) /\ ixParsedParams.success
                             THEN ixParsedParams.data ELSE req.params,
                query |-> IF Declared(s.query) /\ ixParsedQuery.success
                            THEN ixParsedQuery.data ELSE req.query,
                body |-> IF Declared(s.body) /\ ixParsedBody.success
                           THEN ixParsedBody.data ELSE req.body]
     /\ IF Len(ixParseErrors) > 0
          THEN index_sendErrors(ixParseErrors) /\ UNCHANGED nextCalls
          ELSE next /\ UNCHANGED << res, sendErrorsCalls, overrideCalls >>

(***************************************************************************)
(* Actions.                                                                *)
(***************************************************************************)
\* The schema set declares channel c and no other.
Only(c) == \A d \in RequestInputType : Declared(schemas[d]) <=> d = c

\* The operation named o runs to completion.
Ran(o) == pc = "ready" /\ pc' = "done" /\ op' = o
          /\ UNCHANGED << PackageConfiguration, schemas, received >>

\* The channels whose schema rejects the request as it is: what a handler that
\* validates by hand (README, "validateXXX vs withParsedXXX") passes to sendError.
Failing == { c \in RequestInputType :
               Declared(schemas[c]) /\ ~SafeParse(schemas[c], req[c]).success }

\* The lists of (channel, error) pairs over distinct failing channels, in any order.
FailureLists ==
  { l \in UNION { [1..n -> Failing] : n \in 1..Cardinality(Failing) } :
      \A i, j \in DOMAIN l : i # j => l[i] # l[j] }

ZodErrorsOf(l) == [i \in DOMAIN l |-> << l[i], SafeParse(schemas[l[i]], req[l[i]]).error >>]

\* Application start-up code sets, or clears, the override.
SetOverride ==
  /\ pc = "ready"
  /\ PackageConfiguration.sendErrors = "undefined"
  /\ PackageConfiguration' = [sendErrors |-> "CustomResponder"]
  /\ UNCHANGED << schemas, req, received, res, nextCalls, sendErrorsCalls,
                  overrideCalls, op, pc >>

ClearOverride ==
  /\ pc = "ready"
  /\ PackageConfiguration.sendErrors # "undefined"
  /\ PackageConfiguration' = [sendErrors |-> "undefined"]
  /\ UNCHANGED << schemas, req, received, res, nextCalls, sendErrorsCalls,
                  overrideCalls, op, pc >>

ValidateRequest == Ran("validateRequest") /\ validateRequest(schemas)

ValidateRequestParams ==
  Ran("validateRequestParams") /\ Only("params") /\ validateRequestParams(schemas.params)

ValidateRequestQuery ==
  Ran("validateRequestQuery") /\ Only("query") /\ validateRequestQuery(schemas.query)

ValidateRequestBody ==
  Ran("validateRequestBody") /\ Only("body") /\ validateRequestBody(schemas.body)

WithParsedRequest == Ran("withParsedRequest") /\ withParsedRequest(schemas)

WithParsedRequestParams ==
  Ran("withParsedRequestParams") /\ Only("params")
  /\ withParsedRequestParams(schemas.params)

WithParsedRequestQuery ==
  Ran("withParsedRequestQuery") /\ Only("query")
  /\ withParsedRequestQuery(schemas.query)

WithParsedRequestBody ==
  Ran("withParsedRequestBody") /\ Only("body")
  /\ withParsedRequestBody(schemas.body)

SendError ==
  \E c \in Failing :
    /\ Ran("sendError")
    /\ sendError(c, SafeParse(schemas[c], req[c]).error)
    /\ UNCHANGED << req, nextCalls >>

SendErrors ==
  \E l \in FailureLists :
    /\ Ran("sendErrors")
    /\ sendErrors(ZodErrorsOf(l))
    /\ UNCHANGED << req, nextCalls >>

IndexValidateRequest == Ran("index.validateRequest") /\ index_validateRequest(schemas)

IndexWithParsedRequest ==
  Ran("index.withParsedRequest") /\ index_withParsedRequest(schemas)

IndexSendError ==
  \E c \in Failing :
    /\ Ran("index.sendError")
    /\ index_sendError(c, SafeParse(schemas[c], req[c]).error)
    /\ UNCHANGED << req, nextCalls >>

IndexSendErrors ==
  \E l \in FailureLists :
    /\ Ran("index.sendErrors")
    /\ index_sendErrors(ZodErrorsOf(l))
    /\ UNCHANGED << req, nextCalls >>

Next ==
  \/ SetOverride
  \/ ClearOverride
  \/ ValidateRequest
  \/ ValidateRequestParams
  \/ ValidateRequestQuery
  \/ ValidateRequestBody
  \/ WithParsedRequest
  \/ WithParsedRequestParams
  \/ WithParsedRequestQuery
  \/ WithParsedRequestBody
  \/ SendError
  \/ SendErrors
  \/ IndexValidateRequest
  \/ IndexWithParsedRequest
  \/ IndexSendError
  \/ IndexSendErrors

Spec == Init /\ [][Next]_vars

(***************************************************************************)
(* Vocabulary of the properties.                                           *)
(***************************************************************************)
ValidateOps == {"validateRequest", "validateRequestParams", "validateRequestQuery",
                "validateRequestBody", "index.validateRequest"}
ParseOps == {"withParsedRequest", "withParsedRequestParams", "withParsedRequestQuery",
             "withParsedRequestBody", "index.withParsedRequest"}
HandlerOps == ValidateOps \cup ParseOps
\* The operations whose responder is the send-error module's (the one with the override).
SendErrorModuleOps == (HandlerOps \ {"index.validateRequest", "index.withParsedRequest"})
                        \cup {"sendError", "sendErrors"}

HandlerDone == pc = "done" /\ op \in HandlerOps

\* The outcome of channel c's schema on the request as it arrived.
Outcome(c) == SafeParse(schemas[c], received[c])
Rejects(c) == Declared(schemas[c]) /\ ~Outcome(c).success
Accepts(c) == Declared(schemas[c]) /\ Outcome(c).success
Rejected == \E c \in RequestInputType : Rejects(c)
NumIssues(c) == IF Rejects(c) THEN Len(Outcome(c).error.errors) ELSE 0

DefaultPath == PackageConfiguration.sendErrors = "undefined"
                 \/ op \in {"index.validateRequest", "index.withParsedRequest"}

ProblemFields == {"type", "title", "detail", "status", "errors"}

\* C1: one run of a handler of validateRequest or withParsedRequest (or of a
\* one-channel variant) calls next() exactly once or sendErrors exactly once,
\* never both and never neither.
C1_OneTerminalAction ==
  HandlerDone =>
    \/ nextCalls = 1 /\ Len(sendErrorsCalls) = 0
    \/ nextCalls = 0 /\ Len(sendErrorsCalls) = 1

C1_Witness ==
  /\ pc = "done" /\ op = "validateRequest"
  /\ Rejected /\ Len(sendErrorsCalls) = 1 /\ nextCalls = 0

\* C2 (as stated): in parse mode, when some declared schema rejects, req.params,
\* req.query and req.body all hold the values they had before the handler ran.
C2_AllOrNothing ==
  (pc = "done" /\ op \in ParseOps /\ Rejected) => req = received

\* C2 (amended): in parse mode, when some declared schema rejects, a channel
\* whose schema rejected and a channel with no schema hold the value they had
\* before the handler ran, and a channel whose own schema accepted holds that
\* schema's output.
C2_RejectedKeepsAcceptedReplaced ==
  (pc = "done" /\ op \in ParseOps /\ Rejected) =>
    \A c \in RequestInputType :
      req[c] = IF Accepts(c) THEN Outcome(c).data ELSE received[c]

C2_Witness ==
  /\ pc = "done" /\ op = "withParsedRequest"
  /\ Accepts("params") /\ Rejects("body")
  /\ req.params # received.params
  /\ req.body = received.body
  /\ nextCalls = 0

\* C3: in validate mode req.params, req.query and req.body are what they were
\* before the handler ran, on accept and on reject.
C3_ValidateNeverMutates ==
  (pc = "done" /\ op \in ValidateOps) => req = received

C3_Witness ==
  /\ pc = "done" /\ op = "validateRequest"
  /\ ~Rejected /\ nextCalls = 1
  /\ Accepts("params") /\ Outcome("params").data # received.params
  /\ req = received

\* The channels of a list of (channel, error) pairs, in its order.
ChannelsOf(zodErrors) == [i \in 1..Len(zodErrors) |-> zodErrors[i][1]]

\* The (channel, issue) pairs of a list of (channel, error) pairs, flattened in
\* its order.
RECURSIVE Flattened(_)
Flattened(zodErrors) ==
  IF Len(zodErrors) = 0 THEN << >>
  ELSE [i \in 1..Len(zodErrors[1][2].errors) |->
          [inputType |-> zodErrors[1][1], issue |-> zodErrors[1][2].errors[i]]]
       \o Flattened(Tail(zodErrors))

\* Position of a channel in the order params, query, body.
Rank(c) == IF c = "params" THEN 1 ELSE IF c = "query" THEN 2 ELSE 3

\* The default payload's entry for one field failure of channel c.
Entry(c, issue) ==
  [detail |-> issue.message, pointer |-> "#" \o c \o "/" \o issue.path[1]]

\* C4: on rejection the list handed to the error responder has exactly one
\* (channel, failures) entry for each declared channel whose schema rejected
\* (a later channel is still run after an earlier one failed), and the default
\* payload's errors array has exactly one entry per field failure of every
\* failing channel.
C4_TotalAggregation ==
  (HandlerDone /\ Rejected) =>
    /\ Len(sendErrorsCalls) = 1
    /\ LET handed == sendErrorsCalls[1].zodErrors
       IN /\ { handed[i][1] : i \in 1..Len(handed) } = { c \in RequestInputType : Rejects(c) }
          /\ Len(handed) = Cardinality({ c \in RequestInputType : Rejects(c) })
          /\ \A i \in 1..Len(handed) : handed[i][2] = Outcome(handed[i][1]).error
    /\ DefaultPath =>
         /\ Len(res.json) = 1
         /\ Len(res.json[1].errors) = NumIssues("params") + NumIssues("query") + NumIssues("body")

C4_Witness ==
  /\ pc = "done" /\ op = "withParsedRequest" /\ DefaultPath
  /\ \A c \in RequestInputType : Rejects(c)
  /\ Len(sendErrorsCalls[1].zodErrors) = 3
  /\ Len(res.json[1].errors) = 5

\* C5: channels are validated in the order params, query, body, and the default
\* payload lists the params field failures first, then the query ones, then the
\* body ones, each channel's in the order its schema reported them.
C5_ErrorOrder ==
  (HandlerDone /\ Rejected) =>
    /\ Len(sendErrorsCalls) = 1
    /\ LET order == ChannelsOf(sendErrorsCalls[1].zodErrors)
       IN \A i, j \in 1..Len(order) : i < j => Rank(order[i]) < Rank(order[j])
    /\ DefaultPath =>
         /\ Len(res.json) = 1
         /\ LET expected ==
                  Flattened((IF Rejects("params")
                               THEN << << "params", Outcome("params").error >> >> ELSE << >>)
                            \o (IF Rejects("query")
                                  THEN << << "query", Outcome("query").error >> >> ELSE << >>)
                            \o (IF Rejects("body")
                                  THEN << << "body", Outcome("body").error >> >> ELSE << >>))
                errors == res.json[1].errors
            IN /\ Len(errors) = Len(expected)
               /\ \A i \in 1..Len(errors) :
                    /\ errors[i].detail = expected[i].issue.message
                    /\ Len(expected[i].issue.path) >= 1 =>
                         errors[i] = Entry(expected[i].inputType, expected[i].issue)

\* The spec's scenario: query and body fail with two field failures each.
C5_Witness ==
  /\ pc = "done" /\ op = "withParsedRequest" /\ DefaultPath
  /\ ~Rejects("params") /\ NumIssues("query") = 2 /\ NumIssues("body") = 2
  /\ Len(res.json) = 1
  /\ [i \in 1..4 |-> res.json[1].errors[i].pointer]
       = << "#query/lang", "#query/version", "#body/name", "#body/address" >>

\* C6: with no override configured, a rejection emits exactly one response:
\* status 422, content-type application/problem+json, a body with exactly the
\* fields type, title, detail, status (422) and errors, and errors not empty.
C6_DefaultResponse ==
  (HandlerDone /\ Rejected /\ PackageConfiguration.sendErrors = "undefined") =>
    /\ res.status = << 422 >>
    /\ res.setHeader = << << "content-type", "application/problem+json" >> >>
    /\ Len(res.json) = 1
    /\ DOMAIN res.json[1] = ProblemFields
    /\ res.json[1].status = 422
    /\ Len(res.json[1].errors) > 0

C6_Witness ==
  /\ pc = "done" /\ op = "validateRequestBody"
  /\ PackageConfiguration.sendErrors = "undefined"
  /\ Rejects("body")
  /\ res.status = << 422 >> /\ Len(res.json) = 1

C8_AcceptForwardsUntouched ==
  (HandlerDone /\ ~Rejected) =>
    /\ nextCalls = 1
    /\ res = FreshResponse
    /\ sendErrorsCalls = << >>
    /\ overrideCalls = << >>

C8_Witness ==
  /\ pc = "done" /\ op = "validateRequest"
  /\ \A c \in RequestInputType : ~Declared(schemas[c])
  /\ nextCalls = 1 /\ res = FreshResponse

\* C9: in parse mode, when every declared schema accepts, next() is called with
\* each channel that has a schema holding that schema's output for the channel's
\* original data, and each channel without a schema holding its original data.
C9_AcceptedRequestIsParsed ==
  (pc = "done" /\ op \in ParseOps /\ ~Rejected) =>
    /\ nextCalls = 1
    /\ \A c \in RequestInputType :
         req[c] = IF Declared(schemas[c]) THEN Outcome(c).data ELSE received[c]

C9_Witness ==
  /\ pc = "done" /\ op = "withParsedRequest" /\ ~Rejected
  /\ Declared(schemas.params) /\ Declared(schemas.query) /\ ~Declared(schemas.body)
  /\ req.params = Obj([id |-> Num(0)]) /\ received.params = Obj([id |-> Str("0")])
  /\ req.query # received.query
  /\ req.body = received.body
  /\ nextCalls = 1

\* C10: in the default payload the entry of a field failure on channel c whose
\* path has at least one segment has the failure's message as detail and
\* "#" + c + "/" + the first path segment as pointer, whatever follows the first
\* segment.
C10_PointerIsChannelAndFirstSegment ==
  (pc = "done" /\ Len(res.json) = 1 /\ DOMAIN res.json[1] = ProblemFields) =>
    /\ Len(sendErrorsCalls) = 1
    /\ LET failures == Flattened(sendErrorsCalls[1].zodErrors)
           errors == res.json[1].errors
       IN /\ Len(errors) = Len(failures)
          /\ \A i \in 1..Len(failures) :
               Len(failures[i].issue.path) >= 1 =>
                 /\ errors[i].detail = failures[i].issue.message
                 /\ errors[i].pointer
                      = "#" \o failures[i].inputType \o "/" \o failures[i].issue.path[1]

\* A failure two segments deep in the body: the pointer names the first only.
C10_Witness ==
  /\ pc = "done" /\ op = "validateRequestBody"
  /\ Len(res.json) = 1
  /\ received.body = Obj([name |-> Str("x"), address |-> Obj([first |-> Undefined])])
  /\ sendErrorsCalls[1].zodErrors[1][2].errors[1].path = << "address", "first" >>
  /\ res.json[1].errors = << [detail |-> "Required", pointer |-> "#body/address"] >>

\* C11: in the default payload the entry of a field failure whose path has no
\* segments (a failure on the channel's root value) has no pointer, or an empty
\* one: never a pointer naming a segment the path does not have.
C11_RootFailureHasNoPointer ==
  (pc = "done" /\ Len(res.json) = 1 /\ DOMAIN res.json[1] = ProblemFields) =>
    LET rootFailures == Flattened(sendErrorsCalls[1].zodErrors)
        rootErrors == res.json[1].errors
    IN \A i \in 1..Len(rootFailures) :
         Len(rootFailures[i].issue.path) = 0 =>
           \/ "pointer" \notin DOMAIN rootErrors[i]
           \/ rootErrors[i].pointer = ""

\* C12: sendError(res, channel, failures) does what sendErrors(res, [[channel,
\* failures]]) of the same module does, with the override unset or set, and each
\* one-channel middleware does what the all-channels middleware does for the
\* schema set declaring that channel alone.
C12_VariantsDelegate ==
  [][pc = "ready" =>
       /\ op' = "sendError" =>
            \E c \in Failing : sendErrors(<< << c, SafeParse(schemas[c], req[c]).error >> >>)
       /\ op' = "index.sendError" =>
            \E c \in Failing :
              index_sendErrors(<< << c, SafeParse(schemas[c], req[c]).error >> >>)
       /\ op' \in {"validateRequestParams", "validateRequestQuery", "validateRequestBody"} =>
            /\ Cardinality({ c \in RequestInputType : Declared(schemas[c]) }) = 1
            /\ validateRequest(schemas)
       /\ op' \in {"withParsedRequestParams", "withParsedRequestQuery",
                   "withParsedRequestBody"} =>
            /\ Cardinality({ c \in RequestInputType : Declared(schemas[c]) }) = 1
            /\ withParsedRequest(schemas)]_vars

C12_Witness ==
  /\ pc = "done" /\ op = "sendError"
  /\ PackageConfiguration.sendErrors # "undefined"
  /\ Len(overrideCalls) = 1
  /\ Len(overrideCalls[1].zodErrors) = 1
  /\ res = CustomResponder(FreshResponse, overrideCalls[1].zodErrors)

\* What a run leaves behind that a caller can see: the terminal action, the
\* calls made on the response, and req.params, req.query and req.body.
Observed == [next |-> nextCalls, res |-> res, req |-> req]

\* The response sendErrors of the send-error module leaves for a list.
ModuleResponse(zodErrors) ==
  IF PackageConfiguration.sendErrors # "undefined"
    THEN CustomResponder(FreshResponse, zodErrors)
    ELSE Respond(FreshResponse, Problem(FlatMapIssues(zodErrors)))

\* What the operation o of middlewares.ts and the send-error module leaves
\* behind for the request as it arrived (for a direct call: for the list handed).
ModuleOutcome(o) ==
  IF o \in {"sendError", "sendErrors"}
    THEN [next |-> 0, res |-> ModuleResponse(sendErrorsCalls[1].zodErrors), req |-> received]
    ELSE [next |-> IF Rejected THEN 0 ELSE 1,
          res |-> IF Rejected THEN ModuleResponse(Rejections(schemas, received))
                  ELSE FreshResponse,
          req |-> IF o = "withParsedRequest"
                    THEN [params |-> Parsed(schemas, received).params,
                          query |-> Parsed(schemas, received).query,
                          body |-> Parsed(schemas, received).body]
                    ELSE received]

\* The operation of middlewares.ts and the send-error module that an operation
\* of index.ts is a copy of.
CopyOf(o) ==
  CASE o = "index.validateRequest" -> "validateRequest"
    [] o = "index.withParsedRequest" -> "withParsedRequest"
    [] o = "index.sendError" -> "sendError"
    [] o = "index.sendErrors" -> "sendErrors"

IndexOps == {"index.validateRequest", "index.withParsedRequest",
             "index.sendError", "index.sendErrors"}

\* C13 (lemma): ModuleOutcome is exactly what validateRequest, withParsedRequest,
\* sendError and sendErrors of middlewares.ts and the send-error module leave.
C13_ModuleOutcomeIsExact ==
  (pc = "done" /\ op \in {"validateRequest", "withParsedRequest", "sendError", "sendErrors"})
    => Observed = ModuleOutcome(op)

\* C13: validateRequest, withParsedRequest, sendError and sendErrors of index.ts
\* leave the same terminal action, the same response and the same req.params,
\* req.query and req.body as the versions of middlewares.ts and the send-error
\* module, with the override unset or set.
C13_CopiesAgree ==
  (pc = "done" /\ op \in IndexOps) => Observed = ModuleOutcome(CopyOf(op))

\* C13 (what does hold): the copies agree whenever the override is unset.
C13_CopiesAgreeWithoutOverride ==
  (pc = "done" /\ op \in IndexOps /\ PackageConfiguration.sendErrors = "undefined")
    => Observed = ModuleOutcome(CopyOf(op))

====
